---- MODULE Spec2Model ----
(***************************************************************************)
(* Model of the tool-orchestration loop of sharoncxu/weather-agent:        *)
(* MCPClient (_register_server, chatWithTools, cleanup) and the Flask      *)
(* shell's send_user_message / clear_message_history of app.py.            *)
(*                                                                         *)
(* Python values are modelled as follows: a dict with string keys is a     *)
(* record, a list is a sequence, the ordered dict _servers is a sequence   *)
(* of entries in insertion order, a parsed JSON object is a set of         *)
(* <<key, value>> pairs, None is the string "None".                        *)
(***************************************************************************)
EXTENDS Integers, Sequences, FiniteSets, TLC

\* ------------------------------------------------------------------ bounds

\* Most tool invocation requests the language model emits in one run.
MaxToolCalls == 2

\* ------------------------------------------------------------ environment

None == "None"

\* The worker threads that run asyncio.run(send_user_message(...)).
Threads == {"t1", "t2"}

\* Tool providers (MCP server processes) and the tools each one lists.
Providers == {"weather", "air"}

\* ToolDescriptor as list_tools returns it (name, description, inputSchema).
Tool(n) == [name |-> n, description |-> "d:" \o n, inputSchema |-> "schema:" \o n]

\* session.list_tools() of the session connected to provider p.
ListTools(p) ==
    CASE p = "weather" -> <<Tool("get-weather")>>
      [] p = "air"     -> <<Tool("get-aqi")>>
      [] p = "hub"     -> <<Tool("get-aqi"), Tool("get-weather")>>

\* Tool names the language model may ask for: the listed ones and one that
\* no provider lists.
ToolNames == {"get-weather", "get-aqi", "get-tides"}

\* Argument texts the language model may emit: a JSON object, malformed JSON,
\* the empty text and JSON that is not an object.
ArgTexts == {"{\"city\": \"Seattle\"}", "{city:", "", "[1]"}

\* Plain contents of a model turn; result contents of a provider (a result
\* with isError set is returned by call_tool like any other result).
Contents == {"It is clear.", "Take an umbrella."}
ResultContents == {"72F, clear", "isError: no such city"}

\* ------------------------------------------------------------------ state

VARIABLES
    message_history,        \* app.py global: the process-wide transcript
    latest_model_response,  \* app.py global
    mcp_client,             \* app.py global: the last MCPClient created (its id), 0 for None
    clients,                \* MCPClient objects: _servers, _tool_to_server_map, exit_stack
    sessions,               \* provider sessions ever opened: provider, server id, owner,
                            \* whether _register_server stored it, times closed
    pc,                     \* position of each thread
    self,                   \* the MCPClient a thread's running method is bound to
    messages,               \* chatWithTools' messages list of each thread
    available_tools,        \* chatWithTools' local catalog
    pending,                \* tool calls of the current turn not yet iterated
    cur,                    \* the tool call whose call_tool is awaited, or None
    ret,                    \* value returned / exception raised by the thread's call
    issued,                 \* tool invocation requests the model has emitted so far (all threads)
    modelLog,               \* per thread, every model call: transcript and catalog sent
    turnLog,                \* per thread, every model turn received: tool calls, content
    callLog,                \* per thread, every call_tool: session, name, arguments, id, outcome
    startLog,               \* per thread, the message_history its invocation found when it began
    environ,                \* names of the environment variables that are set
    inv                     \* number of the send_user_message invocation of each thread

vars == <<message_history, latest_model_response, mcp_client, clients, sessions,
          pc, self, messages, available_tools, pending, cur, ret, issued,
          modelLog, turnLog, callLog, startLog, environ, inv>>

globals == <<message_history, latest_model_response, mcp_client, environ>>
logs == <<modelLog, turnLog, callLog, startLog>>

\* ------------------------------------------------------- Python helpers

Last(s) == s[Len(s)]

\* d[key] = val on an insertion-ordered dict of entries keyed by server_id:
\* an existing key keeps its place, a new key goes last.
DictSet(d, key, val) ==
    IF \E i \in DOMAIN d : d[i].server_id = key
    THEN [i \in DOMAIN d |-> IF d[i].server_id = key THEN val ELSE d[i]]
    ELSE Append(d, val)

DictGet(d, key) == d[CHOOSE i \in DOMAIN d : d[i].server_id = key]

Range(s) == {s[i] : i \in DOMAIN s}

\* json.loads on the texts of ArgTexts: the decoded value, or the
\* JSONDecodeError it raises.
json_loads(text) ==
    CASE text = "{\"city\": \"Seattle\"}" ->
            [kind |-> "dict", value |-> {<<"city", "Seattle">>}]
      [] text = "{}"   -> [kind |-> "dict", value |-> {}]
      [] text = "[1]"  -> [kind |-> "list", value |-> <<1>>]
      [] text = "null" -> [kind |-> "None", value |-> None]
      [] OTHER         -> [kind |-> "JSONDecodeError", value |-> None]

\* Python truthiness of an argument text (None and "" are falsy).
Truthy(text) == text # None /\ text # ""

\* ------------------------------------------------------------- MCPClient

\* MCPClient.__init__
MCPClient == [_servers |-> <<>>, _tool_to_server_map |-> <<>>, exit_stack |-> <<>>]

\* Mutant: a name that is already in the index keeps its first server.
_register_server_keepfirst(c, server_id, session, tools) ==
    LET names == {tools[i].name : i \in DOMAIN tools}
        map   == c._tool_to_server_map
    IN [c EXCEPT
          !._servers = DictSet(@, server_id,
                               [server_id |-> server_id, session |-> session, tools |-> tools]),
          !._tool_to_server_map =
              [n \in (DOMAIN map) \cup names |->
                  IF n \in DOMAIN map THEN map[n] ELSE server_id]]

\* MCPClient._register_server on client record c, with the tools that
\* session.list_tools() returned.
_register_server(c, server_id, session, tools) ==
    LET names == {tools[i].name : i \in DOMAIN tools}
        map   == c._tool_to_server_map
    IN [c EXCEPT
          !._servers = DictSet(@, server_id,
                               [server_id |-> server_id, session |-> session, tools |-> tools]),
          !._tool_to_server_map =
              [n \in (DOMAIN map) \cup names |-> IF n \in names THEN server_id ELSE map[n]]]

\* The descriptors of one server's tools as the model gets them.
FunctionTools(tools) ==
    [i \in DOMAIN tools |->
        [type |-> "function",
         function |-> [name        |-> tools[i].name,
                       description |-> tools[i].description,
                       parameters  |-> tools[i].inputSchema]]]

\* Mutant: the catalog lists the servers from the last connected to the first.
RECURSIVE CollectTools_reversed(_)
CollectTools_reversed(servers) ==
    IF servers = <<>> THEN <<>>
    ELSE CollectTools_reversed(Tail(servers)) \o FunctionTools(Head(servers).tools)

\* The catalog chatWithTools collects from all connected servers.
RECURSIVE CollectTools(_)
CollectTools(servers) ==
    IF servers = <<>> THEN <<>>
    ELSE [i \in DOMAIN Head(servers).tools |->
             [type |-> "function",
              function |-> [name        |-> Head(servers).tools[i].name,
                            description |-> Head(servers).tools[i].description,
                            parameters  |-> Head(servers).tools[i].inputSchema]]]
         \o CollectTools(Tail(servers))

\* Mutant: json.loads without the try/except and the type checks (as the
\* CLI variant calls it): a malformed or empty text raises, any decoded
\* value is passed on.
ParseArgs_unguarded(arguments) ==
    IF json_loads(arguments).kind = "JSONDecodeError"
    THEN [raised |-> TRUE, tool_args |-> {}]
    ELSE [raised |-> FALSE, tool_args |-> json_loads(arguments).value]

\* The try/except around json.loads in chatWithTools: the argument object
\* handed to call_tool, and whether an exception escapes.
ParseArgs(arguments) ==
    IF ~Truthy(arguments) THEN [raised |-> FALSE, tool_args |-> {}]
    ELSE LET v == json_loads(arguments) IN
         IF v.kind = "JSONDecodeError" THEN [raised |-> FALSE, tool_args |-> {}]
         ELSE IF v.kind = "None" THEN [raised |-> FALSE, tool_args |-> {}]
         ELSE IF v.kind # "dict" THEN [raised |-> FALSE, tool_args |-> {}]
         ELSE [raised |-> FALSE, tool_args |-> v.value]

\* The assistant message(s) chatWithTools appends for tool call `tool`.
AssistantToolCallMessage(tool) ==
    [role |-> "assistant",
     tool_calls |-> <<[id |-> tool.id, type |-> "function",
                       function |-> [name |-> tool.function.name,
                                     arguments |-> tool.function.arguments]]>>]

\* Mutant: every tool message carries the id of the run's first request.
ToolMessage_firstid(tool, content) ==
    [role |-> "tool", tool_call_id |-> 1, content |-> content]

ToolMessage(tool, content) ==
    [role |-> "tool", tool_call_id |-> tool.id, content |-> content]

AssistantMessage(content) == [role |-> "assistant", content |-> content]

\* A tool call as the model's response carries it.
ToolCall(id, name, arguments) ==
    [id |-> id, function |-> [name |-> name, arguments |-> arguments]]

\* The tool_calls lists a model turn may carry when `n` requests were already
\* emitted: 1 .. MaxToolCalls - n requests with fresh call ids.
RECURSIVE ToolCallLists(_, _, _, _)
ToolCallLists(n, len, Names, Args) ==
    IF len = 0 THEN {<<>>}
    ELSE {<<ToolCall(n + 1, nm, a)>> \o rest :
             nm \in Names, a \in Args,
             rest \in ToolCallLists(n + 1, len - 1, Names, Args)}

TurnChoices(n, Names, Args) ==
    UNION {ToolCallLists(n, len, Names, Args) : len \in 1 .. (MaxToolCalls - n)}

NoResult == [kind |-> "none", value |-> None]
Returned(v) == [kind |-> "return", value |-> v]
Raised(e) == [kind |-> "raise", value |-> e]

\* ---------------------------------------------------- chatWithTools steps

\* Mutant: the tool calls of a turn are iterated last to first.
ForToolIn_reversed(calls) == [tool |-> Last(calls), rest |-> SubSeq(calls, 1, Len(calls) - 1)]

\* for tool in response.choices[0].message.tool_calls: the call this
\* iteration handles and the calls left for the next iterations.
ForToolIn(calls) == [tool |-> Head(calls), rest |-> Tail(calls)]

\* Mutant: hasToolCall is never set, so the loop breaks after a turn with tool calls.
AfterToolCall_break(calls) == IF ForToolIn(calls).rest = <<>> THEN "returned" ELSE "tools"

\* Mutant: the model is called again after every tool call.
AfterToolCall_percall(calls) == "model"

\* Where the loop goes once the tool call at the head of `calls` is done:
\* on to the next call of the turn, or (hasToolCall being True) back to the model.
AfterToolCall(calls) == IF ForToolIn(calls).rest = <<>> THEN "model" ELSE "tools"

\* Mutant: the no-servers check is missing.
chatWithTools_unchecked(t) ==
    /\ pc[t] = "chat"
    /\ pc' = [pc EXCEPT ![t] = "model"]
    /\ available_tools' =
           [available_tools EXCEPT ![t] = CollectTools(clients[self[t]]._servers)]
    /\ UNCHANGED <<globals, clients, sessions, self, messages, pending, cur, issued,
                   logs, inv, ret>>

\* chatWithTools up to the loop: the no-servers check and the catalog.
chatWithTools(t) ==
    /\ pc[t] = "chat"
    /\ IF clients[self[t]]._servers = <<>>
       THEN /\ pc' = [pc EXCEPT ![t] = "raised"]
            /\ ret' = [ret EXCEPT ![t] = Raised("ValueError: No MCP servers connected")]
            /\ UNCHANGED available_tools
       ELSE /\ pc' = [pc EXCEPT ![t] = "model"]
            /\ available_tools' =
                   [available_tools EXCEPT ![t] = CollectTools(clients[self[t]]._servers)]
            /\ UNCHANGED ret
    /\ UNCHANGED <<globals, clients, sessions, self, messages, pending, cur, issued,
                   logs, inv>>

\* Mutant: a failed model request is retried instead of leaving chatWithTools.
CallModel_retry(t, Names, Args, Conts) ==
    /\ pc[t] = "model"
    /\ modelLog' = [modelLog EXCEPT ![t] = Append(@, [messages |-> messages[t],
                                                      tools |-> available_tools[t]])]
    /\ \/ \* the request fails and the loop calls the model again
          /\ Len(modelLog[t]) <= MaxToolCalls
          /\ ret' = [ret EXCEPT ![t] = Raised("APIError")]
          /\ UNCHANGED <<pc, messages, pending, issued, turnLog>>
       \/ \* a turn without tool calls: its content is appended and returned
          \E model_response \in Conts :
             /\ turnLog' = [turnLog EXCEPT ![t] = Append(@, [tool_calls |-> <<>>,
                                                            content |-> model_response])]
             /\ messages' = [messages EXCEPT
                                ![t] = Append(@, AssistantMessage(model_response))]
             /\ pc' = [pc EXCEPT ![t] = "returned"]
             /\ ret' = [ret EXCEPT ![t] = Returned(model_response)]
             /\ UNCHANGED <<pending, issued>>
       \/ \* a turn with tool calls: the for loop starts
          \E tool_calls \in TurnChoices(issued, Names, Args) :
             /\ turnLog' = [turnLog EXCEPT ![t] = Append(@, [tool_calls |-> tool_calls,
                                                            content |-> None])]
             /\ pending' = [pending EXCEPT ![t] = tool_calls]
             /\ issued' = issued + Len(tool_calls)
             /\ pc' = [pc EXCEPT ![t] = "tools"]
             /\ UNCHANGED <<messages, ret>>
    /\ UNCHANGED <<globals, clients, sessions, self, available_tools, cur, callLog,
                   startLog, inv>>

\* One self.openai.chat.completions.create call and the branch on its turn.
CallModel(t, Names, Args, Conts) ==
    /\ pc[t] = "model"
    /\ modelLog' = [modelLog EXCEPT ![t] = Append(@, [messages |-> messages[t],
                                                      tools |-> available_tools[t]])]
    /\ \/ \* the request fails
          /\ pc' = [pc EXCEPT ![t] = "raised"]
          /\ ret' = [ret EXCEPT ![t] = Raised("APIError")]
          /\ UNCHANGED <<messages, pending, issued, turnLog>>
       \/ \* a turn without tool calls: its content is appended and returned
          \E model_response \in Conts :
             /\ turnLog' = [turnLog EXCEPT ![t] = Append(@, [tool_calls |-> <<>>,
                                                            content |-> model_response])]
             /\ messages' = [messages EXCEPT
                                ![t] = Append(@, AssistantMessage(model_response))]
             /\ pc' = [pc EXCEPT ![t] = "returned"]
             /\ ret' = [ret EXCEPT ![t] = Returned(model_response)]
             /\ UNCHANGED <<pending, issued>>
       \/ \* a turn with tool calls: the for loop starts
          \E tool_calls \in TurnChoices(issued, Names, Args) :
             /\ turnLog' = [turnLog EXCEPT ![t] = Append(@, [tool_calls |-> tool_calls,
                                                            content |-> None])]
             /\ pending' = [pending EXCEPT ![t] = tool_calls]
             /\ issued' = issued + Len(tool_calls)
             /\ pc' = [pc EXCEPT ![t] = "tools"]
             /\ UNCHANGED <<messages, ret>>
    /\ UNCHANGED <<globals, clients, sessions, self, available_tools, cur, callLog,
                   startLog, inv>>

\* One iteration of the for loop up to the await of call_tool: parse the
\* arguments, append the assistant message, look the tool up.
DispatchTool(t) ==
    /\ pc[t] = "tools"
    /\ LET tool      == ForToolIn(pending[t]).tool
           tool_name == tool.function.name
           parsed    == ParseArgs(tool.function.arguments)
           map       == clients[self[t]]._tool_to_server_map
       IN IF parsed.raised
          THEN /\ pc' = [pc EXCEPT ![t] = "raised"]
               /\ ret' = [ret EXCEPT ![t] = Raised("JSONDecodeError")]
               /\ UNCHANGED <<messages, pending, cur, callLog>>
          ELSE /\ messages' = [messages EXCEPT
                                  ![t] = Append(@, AssistantToolCallMessage(tool))]
               /\ UNCHANGED ret
               /\ IF tool_name \in DOMAIN map
                  THEN LET server_id == map[tool_name]
                           server_session ==
                               DictGet(clients[self[t]]._servers, server_id).session
                       IN /\ callLog' = [callLog EXCEPT ![t] = Append(@,
                                 [session |-> server_session, name |-> tool_name,
                                  arguments |-> parsed.tool_args, id |-> tool.id,
                                  outcome |-> "pending"])]
                          /\ cur' = [cur EXCEPT ![t] = Len(callLog[t]) + 1]
                          /\ pc' = [pc EXCEPT ![t] = "call_tool"]
                          /\ UNCHANGED pending
                  ELSE /\ pending' = [pending EXCEPT ![t] = ForToolIn(@).rest]
                       /\ pc' = [pc EXCEPT ![t] = AfterToolCall(pending[t])]
                       /\ UNCHANGED <<cur, callLog>>
    /\ UNCHANGED <<globals, clients, sessions, self, available_tools, issued,
                   modelLog, turnLog, startLog, inv>>

\* Mutant: the tool result replaces the assistant message of its request
\* instead of following it.
ToolReturn_overwrite(t, Results) ==
    /\ pc[t] = "call_tool"
    /\ \/ \E content \in Results :
             /\ messages' = [messages EXCEPT
                                ![t][Len(messages[t])] = ToolMessage(ForToolIn(pending[t]).tool,
                                                          content)]
             /\ callLog' = [callLog EXCEPT ![t][cur[t]].outcome = "returned"]
             /\ pending' = [pending EXCEPT ![t] = ForToolIn(@).rest]
             /\ pc' = [pc EXCEPT ![t] = AfterToolCall(pending[t])]
             /\ UNCHANGED ret
       \/ /\ callLog' = [callLog EXCEPT ![t][cur[t]].outcome = "raised"]
          /\ pc' = [pc EXCEPT ![t] = "raised"]
          /\ ret' = [ret EXCEPT ![t] = Raised("McpError")]
          /\ UNCHANGED <<messages, pending>>
    /\ cur' = [cur EXCEPT ![t] = 0]
    /\ UNCHANGED <<globals, clients, sessions, self, available_tools, issued,
                   modelLog, turnLog, startLog, inv>>

\* The awaited call_tool completes: its result is appended as a tool
\* message, or the exception it raises leaves chatWithTools.
ToolReturn(t, Results) ==
    /\ pc[t] = "call_tool"
    /\ \/ \E content \in Results :
             /\ messages' = [messages EXCEPT
                                ![t] = Append(@, ToolMessage(ForToolIn(pending[t]).tool,
                                                             content))]
             /\ callLog' = [callLog EXCEPT ![t][cur[t]].outcome = "returned"]
             /\ pending' = [pending EXCEPT ![t] = ForToolIn(@).rest]
             /\ pc' = [pc EXCEPT ![t] = AfterToolCall(pending[t])]
             /\ UNCHANGED ret
       \/ /\ callLog' = [callLog EXCEPT ![t][cur[t]].outcome = "raised"]
          /\ pc' = [pc EXCEPT ![t] = "raised"]
          /\ ret' = [ret EXCEPT ![t] = Raised("McpError")]
          /\ UNCHANGED <<messages, pending>>
    /\ cur' = [cur EXCEPT ![t] = 0]
    /\ UNCHANGED <<globals, clients, sessions, self, available_tools, issued,
                   modelLog, turnLog, startLog, inv>>

\* ------------------------------------- chatWithTools on a caller's client

SYSTEM_PROMPT == "You are in charge of helping the user get ready to leave the house."

SystemMessage == [role |-> "system", content |-> SYSTEM_PROMPT]

UserMessage(user_message) ==
    [role |-> "user", content |-> <<[type |-> "text", text |-> user_message]>>]

\* The transcript the caller hands to chatWithTools.
Transcript0 == <<SystemMessage, UserMessage("What should I wear?")>>

\* A caller connects provider p under server id p: the session is opened and
\* _register_server stores it with the tools it lists.
Register(t, p) ==
    /\ pc[t] = "setup"
    /\ \A i \in DOMAIN clients[self[t]]._servers :
          clients[self[t]]._servers[i].server_id # p
    /\ sessions' = Append(sessions, [provider |-> p, owner |-> self[t], closed |-> 0,
                                      thread |-> t, inv |-> inv[t],
                                      server_id |-> p, registered |-> TRUE])
    /\ clients' = [clients EXCEPT
                      ![self[t]] = _register_server(@, p, Len(sessions) + 1, ListTools(p))]
    /\ UNCHANGED <<globals, pc, self, messages, available_tools, pending, cur, ret,
                   issued, logs, inv>>

\* The caller calls chatWithTools(messages).
Start(t) ==
    /\ pc[t] = "setup"
    /\ pc' = [pc EXCEPT ![t] = "chat"]
    /\ UNCHANGED <<globals, clients, sessions, self, messages, available_tools,
                   pending, cur, ret, issued, logs, inv>>

Init ==
    /\ message_history = <<>>
    /\ latest_model_response = "No weather data available yet."
    /\ mcp_client = 0
    /\ clients = <<MCPClient>>
    /\ sessions = <<>>
    /\ pc = [t \in Threads |-> IF t = "t1" THEN "setup" ELSE "idle"]
    /\ self = [t \in Threads |-> IF t = "t1" THEN 1 ELSE 0]
    /\ messages = [t \in Threads |-> IF t = "t1" THEN Transcript0 ELSE <<>>]
    /\ available_tools = [t \in Threads |-> <<>>]
    /\ pending = [t \in Threads |-> <<>>]
    /\ cur = [t \in Threads |-> 0]
    /\ ret = [t \in Threads |-> NoResult]
    /\ issued = 0
    /\ modelLog = [t \in Threads |-> <<>>]
    /\ turnLog = [t \in Threads |-> <<>>]
    /\ callLog = [t \in Threads |-> <<>>]
    /\ startLog = [t \in Threads |-> <<>>]
    /\ environ = {"GITHUB_TOKEN"}
    /\ inv = [t \in Threads |-> 0]

Next ==
    \/ \E p \in Providers : Register("t1", p)
    \/ Start("t1")
    \/ chatWithTools("t1")
    \/ CallModel("t1", ToolNames, ArgTexts, Contents)
    \/ DispatchTool("t1")
    \/ ToolReturn("t1", ResultContents)

Spec == Init /\ [][Next]_vars

\* ------------------------------- any sequence of _register_server calls

\* Most connect calls a caller makes on one client.
MaxRegistrations == 2

\* Server ids the caller passes to connect_stdio_server / connect_sse_server,
\* and the providers it may connect under them: "hub" lists the names of
\* both other providers.
ServerIds == {"weather", "air"}
RegProviders == Providers \cup {"hub"}

\* The alphabets of the registry runs: every tool name, one argument text,
\* one content and one result.
RegArgTexts == {"{\"city\": \"Seattle\"}"}
RegContents == {"It is clear."}
RegResultContents == {"72F, clear"}

\* A caller connects provider p under a server id of its choice, used
\* before or not: the session is opened and _register_server stores it.
Reconnect(t, server_id, p) ==
    /\ pc[t] = "setup"
    /\ Len(sessions) < MaxRegistrations
    /\ sessions' = Append(sessions, [provider |-> p, owner |-> self[t], closed |-> 0,
                                      thread |-> t, inv |-> inv[t],
                                      server_id |-> server_id, registered |-> TRUE])
    /\ clients' = [clients EXCEPT
                      ![self[t]] = _register_server(@, server_id, Len(sessions) + 1,
                                                    ListTools(p))]
    /\ UNCHANGED <<globals, pc, self, messages, available_tools, pending, cur, ret,
                   issued, logs, inv>>

RegNext ==
    \/ \E server_id \in ServerIds, p \in RegProviders : Reconnect("t1", server_id, p)
    \/ Start("t1")
    \/ chatWithTools("t1")
    \/ CallModel("t1", ToolNames, RegArgTexts, RegContents)
    \/ DispatchTool("t1")
    \/ ToolReturn("t1", RegResultContents)

SpecReg == Init /\ [][RegNext]_vars

\* ------------------------------------------ test2.py: the CLI variant

\* str(result.content): the text of the result list, not the list.
str(content) == "[TextContent(text='" \o content \o "')]"

\* The one assistant message test2.py appends for a turn with tool calls.
test2_AssistantToolCallsMessage(tool_calls) ==
    [role |-> "assistant",
     tool_calls |-> [i \in DOMAIN tool_calls |->
                        [id |-> tool_calls[i].id, type |-> "function",
                         function |-> [name |-> tool_calls[i].function.name,
                                       arguments |-> tool_calls[i].function.arguments]]]]

\* test2.py's bare json.loads(tool.function.arguments).
test2_ParseArgs(arguments) ==
    LET v == json_loads(arguments) IN
    IF v.kind = "JSONDecodeError"
    THEN [raised |-> TRUE, tool_args |-> {}]
    ELSE [raised |-> FALSE, tool_args |-> v.value]

\* Mutant: after the last tool call of a turn the model is called with the
\* catalog again, as in the loop of app.py.
test2_AfterToolCall_loop(calls) ==
    IF Tail(calls) = <<>> THEN "test2_model" ELSE "test2_tools"

\* Where test2.py's chatWithTools stands after the tool call at the head of
\* `calls`: at the next call of the turn, or after the for loop at the one
\* follow-up model call.
test2_AfterToolCall(calls) ==
    IF Tail(calls) = <<>> THEN "test2_final" ELSE "test2_tools"

\* The caller calls test2.py's chatWithTools(messages).
test2_Start(t) ==
    /\ pc[t] = "setup"
    /\ pc' = [pc EXCEPT ![t] = "test2_chat"]
    /\ UNCHANGED <<globals, clients, sessions, self, messages, available_tools,
                   pending, cur, ret, issued, logs, inv>>

\* test2.py chatWithTools up to the model call: the no-servers check and
\* the catalog.
test2_chatWithTools(t) ==
    /\ pc[t] = "test2_chat"
    /\ IF clients[self[t]]._servers = <<>>
       THEN /\ pc' = [pc EXCEPT ![t] = "raised"]
            /\ ret' = [ret EXCEPT ![t] = Raised("ValueError: No MCP servers connected")]
            /\ UNCHANGED available_tools
       ELSE /\ pc' = [pc EXCEPT ![t] = "test2_model"]
            /\ available_tools' =
                   [available_tools EXCEPT ![t] = CollectTools(clients[self[t]]._servers)]
            /\ UNCHANGED ret
    /\ UNCHANGED <<globals, clients, sessions, self, messages, pending, cur, issued,
                   logs, inv>>

\* The model call with the catalog and the branch on its turn.
test2_CallModel(t, Names, Args, Conts) ==
    /\ pc[t] = "test2_model"
    /\ modelLog' = [modelLog EXCEPT ![t] = Append(@, [messages |-> messages[t],
                                                      tools |-> available_tools[t]])]
    /\ \/ \* the request fails
          /\ pc' = [pc EXCEPT ![t] = "raised"]
          /\ ret' = [ret EXCEPT ![t] = Raised("APIError")]
          /\ UNCHANGED <<messages, pending, issued, turnLog>>
       \/ \* no tool calls: the content is appended (and printed)
          \E content \in Conts :
             /\ turnLog' = [turnLog EXCEPT ![t] = Append(@, [tool_calls |-> <<>>,
                                                            content |-> content])]
             /\ messages' = [messages EXCEPT ![t] = Append(@, AssistantMessage(content))]
             /\ pc' = [pc EXCEPT ![t] = "returned"]
             /\ ret' = [ret EXCEPT ![t] = Returned(None)]
             /\ UNCHANGED <<pending, issued>>
       \/ \* tool calls: one assistant message with all of them, then the for loop
          \E tool_calls \in TurnChoices(issued, Names, Args) :
             /\ turnLog' = [turnLog EXCEPT ![t] = Append(@, [tool_calls |-> tool_calls,
                                                            content |-> None])]
             /\ messages' = [messages EXCEPT
                                ![t] = Append(@, test2_AssistantToolCallsMessage(tool_calls))]
             /\ pending' = [pending EXCEPT ![t] = tool_calls]
             /\ issued' = issued + Len(tool_calls)
             /\ pc' = [pc EXCEPT ![t] = "test2_tools"]
             /\ UNCHANGED ret
    /\ UNCHANGED <<globals, clients, sessions, self, available_tools, cur, callLog,
                   startLog, inv>>

\* One iteration of test2.py's for loop up to the await of call_tool.
test2_DispatchTool(t) ==
    /\ pc[t] = "test2_tools"
    /\ LET tool      == Head(pending[t])
           tool_name == tool.function.name
           parsed    == test2_ParseArgs(tool.function.arguments)
           map       == clients[self[t]]._tool_to_server_map
       IN IF parsed.raised
          THEN /\ pc' = [pc EXCEPT ![t] = "raised"]
               /\ ret' = [ret EXCEPT ![t] = Raised("JSONDecodeError")]
               /\ UNCHANGED <<pending, cur, callLog>>
          ELSE /\ UNCHANGED ret
               /\ IF tool_name \in DOMAIN map
                  THEN LET server_id == map[tool_name]
                           server_session ==
                               DictGet(clients[self[t]]._servers, server_id).session
                       IN /\ callLog' = [callLog EXCEPT ![t] = Append(@,
                                 [session |-> server_session, name |-> tool_name,
                                  arguments |-> parsed.tool_args, id |-> tool.id,
                                  outcome |-> "pending"])]
                          /\ cur' = [cur EXCEPT ![t] = Len(callLog[t]) + 1]
                          /\ pc' = [pc EXCEPT ![t] = "test2_call_tool"]
                          /\ UNCHANGED pending
                  ELSE /\ pending' = [pending EXCEPT ![t] = Tail(@)]
                       /\ pc' = [pc EXCEPT ![t] = test2_AfterToolCall(pending[t])]
                       /\ UNCHANGED <<cur, callLog>>
    /\ UNCHANGED <<globals, clients, sessions, self, messages, available_tools, issued,
                   modelLog, turnLog, startLog, inv>>

\* The awaited call_tool completes: the text of its result is appended as
\* a tool message, or the exception it raises leaves chatWithTools.
test2_ToolReturn(t, Results) ==
    /\ pc[t] = "test2_call_tool"
    /\ \/ \E content \in Results :
             /\ messages' = [messages EXCEPT
                                ![t] = Append(@, ToolMessage(Head(pending[t]),
                                                             str(content)))]
             /\ callLog' = [callLog EXCEPT ![t][cur[t]].outcome = "returned"]
             /\ pending' = [pending EXCEPT ![t] = Tail(@)]
             /\ pc' = [pc EXCEPT ![t] = test2_AfterToolCall(pending[t])]
             /\ UNCHANGED ret
       \/ /\ callLog' = [callLog EXCEPT ![t][cur[t]].outcome = "raised"]
          /\ pc' = [pc EXCEPT ![t] = "raised"]
          /\ ret' = [ret EXCEPT ![t] = Raised("McpError")]
          /\ UNCHANGED <<messages, pending>>
    /\ cur' = [cur EXCEPT ![t] = 0]
    /\ UNCHANGED <<globals, clients, sessions, self, available_tools, issued,
                   modelLog, turnLog, startLog, inv>>

\* The one follow-up model call after the tool calls, made without the
\* catalog: its content is appended (and printed).
test2_FinalCall(t, Conts) ==
    /\ pc[t] = "test2_final"
    /\ modelLog' = [modelLog EXCEPT ![t] = Append(@, [messages |-> messages[t]])]
    /\ \/ /\ pc' = [pc EXCEPT ![t] = "raised"]
          /\ ret' = [ret EXCEPT ![t] = Raised("APIError")]
          /\ UNCHANGED <<messages, turnLog>>
       \/ \E final_content \in Conts :
             /\ turnLog' = [turnLog EXCEPT ![t] = Append(@, [tool_calls |-> <<>>,
                                                            content |-> final_content])]
             /\ messages' = [messages EXCEPT
                                ![t] = Append(@, AssistantMessage(final_content))]
             /\ pc' = [pc EXCEPT ![t] = "returned"]
             /\ ret' = [ret EXCEPT ![t] = Returned(None)]
    /\ UNCHANGED <<globals, clients, sessions, self, available_tools, pending, cur,
                   issued, callLog, startLog, inv>>

\* A caller's client runs either variant of chatWithTools on its transcript.
ChatNext ==
    \/ Next
    \/ test2_Start("t1")
    \/ test2_chatWithTools("t1")
    \/ test2_CallModel("t1", ToolNames, ArgTexts, Contents)
    \/ test2_DispatchTool("t1")
    \/ test2_ToolReturn("t1", ResultContents)
    \/ test2_FinalCall("t1", Contents)

SpecChat == Init /\ [][ChatNext]_vars

\* A caller's client runs test2.py's chatWithTools on its transcript. Every
\* step is a step of the one running coroutine (or of its caller before the
\* call), so a step that can be taken is taken.
test2_Next ==
    \/ \E p \in Providers : Register("t1", p)
    \/ test2_Start("t1")
    \/ test2_chatWithTools("t1")
    \/ test2_CallModel("t1", ToolNames, ArgTexts, Contents)
    \/ test2_DispatchTool("t1")
    \/ test2_ToolReturn("t1", ResultContents)
    \/ test2_FinalCall("t1", Contents)

test2_Spec == Init /\ [][test2_Next]_vars /\ WF_vars(test2_Next)

\* ------------------------------------------------- app.py: the Flask shell

\* Most send_user_message invocations one worker runs one after another.
MaxInvocations == 2

\* The text the request handled by thread t carries.
UserText(t) == "message of " \o t

\* What the weather-only deployment of app.py lets the model and the
\* provider draw from.
AppToolNames == {"get-weather", "get-tides"}
AppArgTexts == {"{\"city\": \"Seattle\"}"}
AppContents == {"It is clear."}
AppResultContents == {"72F, clear"}

ErrorText(e) == "Error processing message: " \o e

\* Mutant: cleanup returns without closing the exit stack.
cleanup_skipped(ss, c) == ss

\* MCPClient.cleanup: exit_stack.aclose() closes every context entered on
\* the stack and leaves the stack empty. The sessions after cleanup of client c.
cleanup(ss, c) ==
    [s \in DOMAIN ss |->
        IF s \in Range(clients[c].exit_stack)
        THEN [ss[s] EXCEPT !.closed = @ + 1] ELSE ss[s]]

\* send_user_message starts: mcp_client = MCPClient(), whose constructor
\* reads os.environ["GITHUB_TOKEN"].
SendBegin(t, limit) ==
    /\ pc[t] \in {"idle", "done"}
    /\ inv[t] < limit
    /\ inv' = [inv EXCEPT ![t] = @ + 1]
    /\ IF "GITHUB_TOKEN" \in environ
       THEN /\ clients' = Append(clients, MCPClient)
            /\ mcp_client' = Len(clients) + 1
            /\ pc' = [pc EXCEPT ![t] = "history"]
            /\ ret' = [ret EXCEPT ![t] = NoResult]
       ELSE /\ pc' = [pc EXCEPT ![t] = "raised"]
            /\ ret' = [ret EXCEPT ![t] = Raised("'GITHUB_TOKEN'")]
            /\ UNCHANGED <<clients, mcp_client>>
    \* a new call frame: the locals and the records of the previous call are gone
    /\ self' = [self EXCEPT ![t] = 0]
    /\ messages' = [messages EXCEPT ![t] = <<>>]
    /\ available_tools' = [available_tools EXCEPT ![t] = <<>>]
    /\ modelLog' = [modelLog EXCEPT ![t] = <<>>]
    /\ turnLog' = [turnLog EXCEPT ![t] = <<>>]
    /\ callLog' = [callLog EXCEPT ![t] = <<>>]
    /\ startLog' = [startLog EXCEPT ![t] = message_history]
    /\ UNCHANGED <<message_history, latest_model_response, environ, sessions,
                   pending, cur, issued>>

\* if not message_history: message_history.append(system message)
InitHistory(t) ==
    /\ pc[t] = "history"
    /\ message_history' = IF message_history = <<>>
                          THEN Append(message_history, SystemMessage)
                          ELSE message_history
    /\ pc' = [pc EXCEPT ![t] = "user"]
    /\ UNCHANGED <<latest_model_response, mcp_client, environ, clients, sessions, self,
                   messages, available_tools, pending, cur, ret, issued, logs, inv>>

\* message_history.append(user_message_obj)
AppendUser(t) ==
    /\ pc[t] = "user"
    /\ message_history' = Append(message_history, UserMessage(UserText(t)))
    /\ pc' = [pc EXCEPT ![t] = "connect"]
    /\ UNCHANGED <<latest_model_response, mcp_client, environ, clients, sessions, self,
                   messages, available_tools, pending, cur, ret, issued, logs, inv>>

\* await mcp_client.connect_stdio_server("weather", ...): the transport and
\* the ClientSession are entered on the client's exit_stack, the session is
\* initialized and _register_server lists its tools.
Connect(t) ==
    /\ pc[t] = "connect"
    /\ LET c == mcp_client
           session == Len(sessions) + 1
           Opened(reg) == Append(sessions, [provider |-> "weather", owner |-> c,
                                            closed |-> 0, thread |-> t, inv |-> inv[t],
                                            server_id |-> "weather", registered |-> reg])
           entered == [clients[c] EXCEPT !.exit_stack = Append(@, session)]
       IN \/ \* stdio_client cannot start the server: nothing was opened
             /\ pc' = [pc EXCEPT ![t] = "raised"]
             /\ ret' = [ret EXCEPT ![t] = Raised("FileNotFoundError")]
             /\ UNCHANGED <<clients, sessions>>
          \/ \* initialize() or list_tools() fails on the opened session
             /\ sessions' = Opened(FALSE)
             /\ clients' = [clients EXCEPT ![c] = entered]
             /\ pc' = [pc EXCEPT ![t] = "raised"]
             /\ ret' = [ret EXCEPT ![t] = Raised("McpError")]
          \/ /\ sessions' = Opened(TRUE)
             /\ clients' = [clients EXCEPT
                   ![c] = _register_server(entered, "weather", session, ListTools("weather"))]
             /\ pc' = [pc EXCEPT ![t] = "copy"]
             /\ UNCHANGED ret
    /\ UNCHANGED <<globals, self, messages, available_tools, pending, cur, issued,
                   logs, inv>>

\* mcp_client.chatWithTools(message_history.copy()) is called.
CallChat(t) ==
    /\ pc[t] = "copy"
    /\ self' = [self EXCEPT ![t] = mcp_client]
    /\ messages' = [messages EXCEPT ![t] = message_history]
    /\ pc' = [pc EXCEPT ![t] = "chat"]
    /\ UNCHANGED <<globals, clients, sessions, available_tools, pending, cur, ret,
                   issued, logs, inv>>

\* Mutant: chatWithTools was given message_history itself, not a copy, so
\* everything it appended is in the history when the response is appended.
Finish_alias(t) ==
    /\ pc[t] = "returned"
    /\ latest_model_response' = ret[t].value
    /\ message_history' = Append(messages[t], AssistantMessage(ret[t].value))
    /\ pc' = [pc EXCEPT ![t] = "finally"]
    /\ UNCHANGED <<mcp_client, environ, clients, sessions, self, messages,
                   available_tools, pending, cur, ret, issued, logs, inv>>

\* chatWithTools returned: the response is stored and appended to the history.
Finish(t) ==
    /\ pc[t] = "returned"
    /\ latest_model_response' = ret[t].value
    /\ message_history' = Append(message_history, AssistantMessage(ret[t].value))
    /\ pc' = [pc EXCEPT ![t] = "finally"]
    /\ UNCHANGED <<mcp_client, environ, clients, sessions, self, messages,
                   available_tools, pending, cur, ret, issued, logs, inv>>

\* except Exception as e: the error text is stored, appended and returned.
Except(t) ==
    /\ pc[t] = "raised"
    /\ latest_model_response' = ErrorText(ret[t].value)
    /\ message_history' = Append(message_history, AssistantMessage(ErrorText(ret[t].value)))
    /\ ret' = [ret EXCEPT ![t] = Returned(ErrorText(ret[t].value))]
    /\ pc' = [pc EXCEPT ![t] = "finally"]
    /\ UNCHANGED <<mcp_client, environ, clients, sessions, self, messages,
                   available_tools, pending, cur, issued, logs, inv>>

\* finally: if mcp_client: await mcp_client.cleanup(); then the value
\* reaches the caller. exit_stack.aclose() exits every context on the stack,
\* also when one of the exits raises; the exception of a failed exit then
\* leaves the finally block in place of the value being returned.
Finally(t) ==
    /\ pc[t] = "finally"
    /\ IF mcp_client # 0
       THEN /\ sessions' = cleanup(sessions, mcp_client)
            /\ clients' = [clients EXCEPT ![mcp_client].exit_stack = <<>>]
            /\ \/ UNCHANGED ret
               \/ /\ clients[mcp_client].exit_stack # <<>>
                  /\ ret' = [ret EXCEPT ![t] = Raised("RuntimeError")]
       ELSE UNCHANGED <<sessions, clients, ret>>
    /\ pc' = [pc EXCEPT ![t] = "done"]
    /\ UNCHANGED <<globals, self, messages, available_tools, pending, cur,
                   issued, logs, inv>>

\* POST /api/clear_history
clear_message_history ==
    /\ message_history' = <<>>
    /\ latest_model_response' = "Message history cleared."
    /\ UNCHANGED <<mcp_client, environ, clients, sessions, pc, self, messages,
                   available_tools, pending, cur, ret, issued, logs, inv>>

AppInit ==
    /\ message_history = <<>>
    /\ latest_model_response = "No weather data available yet."
    /\ mcp_client = 0
    /\ clients = <<>>
    /\ sessions = <<>>
    /\ pc = [t \in Threads |-> "idle"]
    /\ self = [t \in Threads |-> 0]
    /\ messages = [t \in Threads |-> <<>>]
    /\ available_tools = [t \in Threads |-> <<>>]
    /\ pending = [t \in Threads |-> <<>>]
    /\ cur = [t \in Threads |-> 0]
    /\ ret = [t \in Threads |-> NoResult]
    /\ issued = 0
    /\ modelLog = [t \in Threads |-> <<>>]
    /\ turnLog = [t \in Threads |-> <<>>]
    /\ callLog = [t \in Threads |-> <<>>]
    /\ startLog = [t \in Threads |-> <<>>]
    /\ environ \in {{"GITHUB_TOKEN"}, {}}
    /\ inv = [t \in Threads |-> 0]

\* The steps of the invocation that thread t runs.
AppStep(t, limit, Names) ==
    \/ SendBegin(t, limit)
    \/ InitHistory(t)
    \/ AppendUser(t)
    \/ Connect(t)
    \/ CallChat(t)
    \/ chatWithTools(t)
    \/ CallModel(t, Names, AppArgTexts, AppContents)
    \/ DispatchTool(t)
    \/ ToolReturn(t, AppResultContents)
    \/ Finish(t)
    \/ Except(t)
    \/ Finally(t)

\* Requests handled one at a time: invocations never overlap ("t1" stands
\* for the worker of each request in turn); a clear_history request may
\* arrive at any moment.
SeqNext ==
    \/ AppStep("t1", MaxInvocations, AppToolNames)
    \/ clear_message_history

SpecSeq == AppInit /\ [][SeqNext]_vars

\* Requests handled one at a time with nothing else running beside an
\* invocation: a clear_history request is handled only between invocations.
ClearBetween ==
    /\ pc["t1"] \in {"idle", "done"}
    /\ clear_message_history

SoloNext ==
    \/ AppStep("t1", MaxInvocations, AppToolNames)
    \/ ClearBetween

SpecSolo == AppInit /\ [][SoloNext]_vars

\* Requests handled in parallel by the threaded server: send_message hands
\* each request to a worker thread of its own, which runs one invocation;
\* the steps of the two invocations interleave.
AppNext ==
    \E t \in Threads : AppStep(t, 1, AppToolNames)

SpecApp == AppInit /\ [][AppNext]_vars

\* ------------------------------------------------------------------ claims

\* What the records of a run say.
RECURSIVE Concat(_)
Concat(ss) == IF ss = <<>> THEN <<>> ELSE Head(ss) \o Concat(Tail(ss))

\* All tool invocation requests thread t's model emitted, in emission order.
Emitted(t) == Concat([i \in DOMAIN turnLog[t] |-> turnLog[t][i].tool_calls])

ToolTurns(t) == {i \in DOMAIN turnLog[t] : turnLog[t][i].tool_calls # <<>>}

IsToolMessage(m) == m.role = "tool"
IsToolCallMessage(m) == m.role = "assistant" /\ "tool_calls" \in DOMAIN m

\* The transcript chatWithTools was given (nothing is appended before the
\* first model call) and the messages it has appended since.
Given(t) == IF modelLog[t] = <<>> THEN messages[t] ELSE modelLog[t][1].messages
Appended(t) == SubSeq(messages[t], Len(Given(t)) + 1, Len(messages[t]))

Registered(t, name) == name \in DOMAIN clients[self[t]]._tool_to_server_map

IsPrefix(a, b) == Len(a) <= Len(b) /\ a = SubSeq(b, 1, Len(a))

Ids(calls) == [i \in DOMAIN calls |-> calls[i].id]

\* C1: chatWithTools returns only after a model turn without tool calls:
\* every earlier turn carried tool calls and was followed by another model
\* call, the last turn carried none, its plain content is the last message of
\* the transcript (role assistant) and is the value returned; and while the
\* latest turn carries tool calls the run has not returned and, once that
\* turn's calls are done, stands before the next model call.
C1_ReturnsOnlyAfterPlainTurn ==
    \A t \in Threads :
       /\ pc[t] = "returned" =>
             /\ clients[self[t]]._servers # <<>>
             /\ turnLog[t] # <<>>
             /\ Len(modelLog[t]) = Len(turnLog[t])
             /\ \A i \in DOMAIN turnLog[t] :
                   (turnLog[t][i].tool_calls = <<>>) <=> (i = Len(turnLog[t]))
             /\ Last(messages[t]) = [role |-> "assistant",
                                     content |-> Last(turnLog[t]).content]
             /\ ret[t] = Returned(Last(turnLog[t]).content)
       /\ (turnLog[t] # <<>> /\ Last(turnLog[t]).tool_calls # <<>>) =>
             /\ pc[t] \in {"tools", "call_tool", "model", "raised"}
             /\ (pc[t] = "model") <=> (pending[t] = <<>> /\ Len(modelLog[t]) = Len(turnLog[t]))

\* C1 witness: a run returned after a turn with tool calls and then a plain turn.
C1_Witness ==
    /\ pc["t1"] = "returned"
    /\ Len(turnLog["t1"]) = 2
    /\ turnLog["t1"][1].tool_calls # <<>>
    /\ ret["t1"] = Returned("Take an umbrella.")

\* C2: the model is called once per model turn, never once per tool call:
\* at any moment the model calls made number at most the turns that carried
\* tool calls plus one; a run that returned after n such turns and a plain one
\* made exactly n+1 model calls and executed every request for a registered
\* tool exactly once; and with one request for a registered tool in turn 1
\* and plain content in turn 2, one tool call was executed, one tool message
\* appended and the content of turn 2 returned.
C2_OneModelCallPerTurn ==
    \A t \in Threads :
       /\ Len(modelLog[t]) <= Cardinality(ToolTurns(t)) + 1
       /\ pc[t] = "returned" =>
             /\ Len(modelLog[t]) = Cardinality(ToolTurns(t)) + 1
             /\ Ids(callLog[t]) =
                   Ids(SelectSeq(Emitted(t), LAMBDA r : Registered(t, r.function.name)))
             /\ (/\ Len(turnLog[t]) = 2
                 /\ Len(turnLog[t][1].tool_calls) = 1
                 /\ Registered(t, turnLog[t][1].tool_calls[1].function.name))
                => /\ Len(callLog[t]) = 1
                   /\ Len(SelectSeq(Appended(t), IsToolMessage)) = 1
                   /\ ret[t] = Returned(turnLog[t][2].content)

\* C2 witness: a returned run whose first turn carried two requests for
\* registered tools: two tool calls, two model calls.
C2_Witness ==
    /\ pc["t1"] = "returned"
    /\ Len(turnLog["t1"]) = 2
    /\ Len(turnLog["t1"][1].tool_calls) = 2
    /\ Len(callLog["t1"]) = 2
    /\ Len(modelLog["t1"]) = 2

\* C3: the tool calls of a run are dispatched one at a time in the order the
\* model emitted them (a call starts only when every earlier call has
\* returned), and the tool-result messages stand in the transcript in that
\* same order.
C3_DispatchInEmissionOrder ==
    \A t \in Threads :
       /\ IsPrefix(Ids(callLog[t]),
                   Ids(SelectSeq(Emitted(t), LAMBDA r : Registered(t, r.function.name))))
       /\ \A i \in DOMAIN callLog[t] :
             (i < Len(callLog[t])) => callLog[t][i].outcome = "returned"
       /\ LET results == SelectSeq(Appended(t), IsToolMessage)
              done == SelectSeq(callLog[t], LAMBDA c : c.outcome = "returned")
          IN [i \in DOMAIN results |-> results[i].tool_call_id] = Ids(done)

\* C3 witness: one turn carried requests for tools of two different
\* providers and both calls have returned.
C3_Witness ==
    /\ Len(turnLog["t1"]) >= 1
    /\ Len(turnLog["t1"][1].tool_calls) = 2
    /\ Len(callLog["t1"]) = 2
    /\ callLog["t1"][1].session # callLog["t1"][2].session
    /\ callLog["t1"][2].outcome = "returned"
    /\ callLog["t1"][1].name = "get-aqi"

\* A request that the for loop has gone past: it is no longer waiting in
\* `pending` (the call in flight is still at the head of `pending`).
Processed(t, r) == \A i \in DOMAIN pending[t] : pending[t][i].id # r.id

HasResult(t, r) ==
    \E i \in DOMAIN messages[t] :
       IsToolMessage(messages[t][i]) /\ messages[t][i].tool_call_id = r.id

\* C4: a request for a tool that no registered provider exposes is never
\* silently dropped: once the loop has gone past it, either the run has failed
\* with an unknown-tool error or a tool-role message references its call_id.
C4_UnknownToolNeverDropped ==
    \A t \in Threads : \A i \in DOMAIN Emitted(t) :
       LET r == Emitted(t)[i] IN
       (~Registered(t, r.function.name) /\ Processed(t, r)) =>
          \/ (pc[t] = "raised" /\ ret[t] = Raised("UnknownToolError"))
          \/ HasResult(t, r)

\* The argument texts that are not the text of a JSON object.
NotAnObject(text) == ~Truthy(text) \/ json_loads(text).kind # "dict"

\* C5: a request whose argument text is malformed, empty or not a JSON
\* object never raises out of the argument parsing, and when its tool is
\* registered the tool is dispatched with the empty argument object: the
\* for loop goes past the request only with its call_tool made.
C5_MalformedArgumentsDispatchEmpty ==
    \A t \in Threads :
       /\ ret[t] # Raised("JSONDecodeError")
       /\ \A i \in DOMAIN Emitted(t) :
             LET r == Emitted(t)[i] IN
             (/\ NotAnObject(r.function.arguments)
              /\ Registered(t, r.function.name)
              /\ (Processed(t, r) \/ (pc[t] \in {"call_tool", "raised"}
                                       /\ pending[t] # <<>> /\ pending[t][1].id = r.id)))
             => \E j \in DOMAIN callLog[t] :
                   /\ callLog[t][j].id = r.id
                   /\ callLog[t][j].name = r.function.name
                   /\ callLog[t][j].arguments = {}

\* C5 witness: a run returned after a call dispatched with empty arguments
\* for a request whose argument text was malformed JSON.
C5_Witness ==
    /\ pc["t1"] = "returned"
    /\ Len(Emitted("t1")) = 1
    /\ Emitted("t1")[1].function.arguments = "{city:"
    /\ Len(callLog["t1"]) = 1
    /\ callLog["t1"][1].arguments = {}
    /\ callLog["t1"][1].outcome = "returned"

\* C6: with no provider registered, chatWithTools fails with the
\* no-servers error before any model call, executes no tool call and leaves
\* the transcript it was given unchanged.
C6_NoProvidersFailsFirst ==
    \A t \in Threads :
       (/\ self[t] \in DOMAIN clients
        /\ clients[self[t]]._servers = <<>>
        /\ pc[t] \notin {"idle", "setup", "chat"}) =>
          /\ pc[t] = "raised"
          /\ ret[t] = Raised("ValueError: No MCP servers connected")
          /\ modelLog[t] = <<>>
          /\ callLog[t] = <<>>
          /\ messages[t] = Transcript0

\* C6 witness: chatWithTools was called on a client without servers and raised.
C6_Witness ==
    /\ clients[self["t1"]]._servers = <<>>
    /\ pc["t1"] = "raised"
    /\ ret["t1"].kind = "raise"

\* C7: for invocations that run one at a time, no provider session is ever
\* closed twice, and a session is still open only while the invocation that
\* opened it has not yet reached its caller: when the invocation ends, by a
\* returned response or by an error text, each session it opened has been
\* closed exactly once.
C7_SessionsClosedExactlyOnce ==
    \A s \in DOMAIN sessions :
       /\ sessions[s].closed <= 1
       /\ sessions[s].closed = 0 =>
             /\ inv[sessions[s].thread] = sessions[s].inv
             /\ pc[sessions[s].thread] # "done"

\* C7 witness: an invocation whose tool call raised has ended with the
\* error text, and the session it opened is closed.
C7_Witness ==
    /\ pc["t1"] = "done"
    /\ ret["t1"] = Returned(ErrorText("McpError"))
    /\ callLog["t1"] # <<>>
    /\ Last(callLog["t1"]).outcome = "raised"
    /\ \E s \in DOMAIN sessions :
          /\ sessions[s].thread = "t1" /\ sessions[s].inv = inv["t1"]
          /\ sessions[s].closed = 1

\* C8: concurrent invocations work on isolated conversations: no transcript
\* an invocation sends to the model holds the user message of the other one.
C8_ConversationsIsolated ==
    \A t \in Threads : \A u \in Threads \ {t} :
       \A i \in DOMAIN modelLog[t] :
          \A j \in DOMAIN modelLog[t][i].messages :
             modelLog[t][i].messages[j] # UserMessage(UserText(u))

\* The turns of thread t whose tool calls the for loop has all gone past.
DispatchedTurns(t) ==
    {i \in ToolTurns(t) : i < Len(turnLog[t]) \/ pc[t] \in {"model", "returned"}}

\* C9: for every model turn with tool calls that has been dispatched, the
\* transcript holds exactly one assistant message for the turn, recording all
\* its requests verbatim in the emitted order, and it stands before each of
\* the turn's tool-result messages.
C9_OneAssistantMessagePerTurn ==
    \A t \in Threads : \A i \in DispatchedTurns(t) :
       LET calls == turnLog[t][i].tool_calls
           ids   == Range(Ids(calls))
           recording == {j \in DOMAIN messages[t] :
                           /\ IsToolCallMessage(messages[t][j])
                           /\ Range(Ids(messages[t][j].tool_calls)) \cap ids # {}}
       IN /\ Cardinality(recording) = 1
          /\ \A j \in recording :
                /\ messages[t][j].tool_calls =
                      [k \in DOMAIN calls |->
                          [id |-> calls[k].id, type |-> "function",
                           function |-> calls[k].function]]
                /\ \A m \in DOMAIN messages[t] :
                      (IsToolMessage(messages[t][m]) /\ messages[t][m].tool_call_id \in ids)
                      => j < m

\* C10: a provider failure while executing a registered tool is not fatal:
\* it is recorded as a tool-result message referencing the call_id and the
\* run goes on (with the rest of the turn, then the model).
C10_ToolFailureNotFatal ==
    \A t \in Threads : \A i \in DOMAIN callLog[t] :
       callLog[t][i].outcome = "raised" =>
          /\ \E j \in DOMAIN messages[t] :
                /\ IsToolMessage(messages[t][j])
                /\ messages[t][j].tool_call_id = callLog[t][i].id
          /\ pc[t] # "raised"

\* The model call of thread t's invocation failed: the exception is on its
\* way to the caller, or has become the error text the caller gets.
ModelFailed(t) ==
    ret[t] \in {Raised("APIError"), Returned(ErrorText("APIError"))}

\* C11: a failed model call is fatal for its invocation: from then on the
\* invocation makes no further model call and no tool call, the caller gets
\* the failure (as the error text of the except block), and when the caller
\* gets it every session the invocation opened has been closed.
C11_ModelFailureFatal ==
    /\ [](\A t \in Threads :
             ModelFailed(t) =>
                /\ pc[t] \in {"raised", "finally", "done"}
                /\ pc[t] = "done" =>
                      /\ ret[t] = Returned(ErrorText("APIError"))
                      /\ \A s \in DOMAIN sessions :
                            (sessions[s].thread = t /\ sessions[s].inv = inv[t])
                            => sessions[s].closed = 1)
    /\ [][\A t \in Threads :
             (ModelFailed(t) /\ inv'[t] = inv[t]) =>
                /\ ModelFailed(t)'
                /\ modelLog'[t] = modelLog[t]
                /\ callLog'[t] = callLog[t]]_vars

\* C11 witness: the second model call of an invocation failed, after a tool
\* call, and the caller has the error text.
C11_Witness ==
    /\ pc["t1"] = "done"
    /\ ret["t1"] = Returned(ErrorText("APIError"))
    /\ Len(modelLog["t1"]) = 2
    /\ Len(callLog["t1"]) = 1

\* The providers registered with thread t's client, and the names they list.
ProvidersOf(t) ==
    {sessions[e.session].provider : e \in Range(clients[self[t]]._servers)}

Lists(p, name) == \E i \in DOMAIN ListTools(p) : ListTools(p)[i].name = name

\* C12: with providers whose tool names are pairwise disjoint, a request for
\* a listed name is executed on the session of exactly the provider that
\* listed it, and a request for any other name fails with an unknown-tool
\* error once the loop has gone past it.
C12_LookupYieldsListingProvider ==
    \A t \in Threads :
       self[t] \in DOMAIN clients =>
          /\ \A i \in DOMAIN callLog[t] :
                LET p == sessions[callLog[t][i].session].provider
                IN /\ p \in ProvidersOf(t)
                   /\ Lists(p, callLog[t][i].name)
          /\ \A i \in DOMAIN Emitted(t) :
                LET r == Emitted(t)[i] IN
                ((\A p \in ProvidersOf(t) : ~Lists(p, r.function.name))
                    /\ Processed(t, r))
                => (pc[t] = "raised" /\ ret[t] = Raised("UnknownToolError"))

\* The registrations made on thread t's client, oldest first, as the
\* indices of their sessions; the latest of them that used server id sid.
RegsOf(t) == {i \in DOMAIN sessions : sessions[i].owner = self[t] /\ sessions[i].registered}

LatestReg(t, sid) ==
    CHOOSE i \in RegsOf(t) :
       /\ sessions[i].server_id = sid
       /\ \A j \in RegsOf(t) : sessions[j].server_id = sid => j <= i

\* The catalog the claim describes: the servers in the order of their first
\* registration, each with the tools of its current session in listing order.
RECURSIVE CatalogFrom(_, _)
CatalogFrom(t, i) ==
    IF i > Len(sessions) THEN <<>>
    ELSE (IF i \in RegsOf(t)
             /\ \A j \in RegsOf(t) : sessions[j].server_id = sessions[i].server_id => i <= j
          THEN FunctionTools(ListTools(sessions[LatestReg(t, sessions[i].server_id)].provider))
          ELSE <<>>)
         \o CatalogFrom(t, i + 1)

\* C13: every model call of a run receives the same catalog: the
\* descriptors of all registered providers in registration order, each
\* provider's in its listing order.
C13_SameCatalogEveryCall ==
    \A t \in Threads : \A i \in DOMAIN modelLog[t] :
       /\ modelLog[t][i].tools = CatalogFrom(t, 1)
       /\ modelLog[t][i].tools = modelLog[t][1].tools

\* C13 witness: two model calls of a run on a client with "air" registered
\* before "hub", whose catalog has three descriptors.
C13_Witness ==
    /\ Len(modelLog["t1"]) = 2
    /\ Len(modelLog["t1"][2].tools) = 3
    /\ modelLog["t1"][2].tools[1].function.name = "get-aqi"
    /\ modelLog["t1"][2].tools[3].function.name = "get-weather"
    /\ Len(clients[1]._servers) = 2

\* C14: chatWithTools, in app.py and in test2.py, only appends to the
\* transcript it is given: over every step the transcript before the step is
\* a prefix of the transcript after it, whether the step returns, raises or
\* goes on.
C14_TranscriptOnlyAppended ==
    [][\A t \in Threads :
          pc[t] \in {"chat", "model", "tools", "call_tool", "test2_chat",
                      "test2_model", "test2_tools", "test2_call_tool", "test2_final"}
          => IsPrefix(messages[t], messages'[t])]_vars

\* C14 witness: a run that appended a tool-call message and a tool message
\* to the two messages it was given and then failed in the model call.
C14_Witness ==
    /\ pc["t1"] = "raised"
    /\ ret["t1"] = Raised("APIError")
    /\ Len(messages["t1"]) = 4
    /\ IsToolMessage(messages["t1"][4])
    /\ Given("t1") = Transcript0

\* The call ids recorded in the assistant tool-call messages of transcript
\* m that stand before position i.
RecordedBefore(m, i) ==
    UNION {{m[j].tool_calls[k].id : k \in DOMAIN m[j].tool_calls} :
              j \in {n \in 1 .. (i - 1) : IsToolCallMessage(m[n])}}

\* C15: every tool-role message of a transcript references one call id,
\* that id is recorded in an assistant message earlier in the transcript, and
\* no call id is referenced by two tool-role messages.
C15_ToolMessageReferencesEarlierCall ==
    \A t \in Threads : \A i \in DOMAIN messages[t] :
       IsToolMessage(messages[t][i]) =>
          /\ messages[t][i].tool_call_id \in 1 .. MaxToolCalls
          /\ messages[t][i].tool_call_id \in RecordedBefore(messages[t], i)
          /\ \A j \in DOMAIN messages[t] :
                (IsToolMessage(messages[t][j]) /\ j # i)
                => messages[t][j].tool_call_id # messages[t][i].tool_call_id

\* C15 witness: a returned run whose transcript holds two tool messages,
\* for the two requests of one turn.
C15_Witness ==
    /\ pc["t1"] = "returned"
    /\ Len(turnLog["t1"]) = 2
    /\ Len(SelectSeq(messages["t1"], IsToolMessage)) = 2

\* C16: under concurrent invocations a session is used only by the
\* invocation that opened it, is closed only by that invocation's own
\* cleanup step (so never while the invocation is still running), and is
\* closed when that invocation is done.
C16_SessionsNeverSharedNorClosedByOthers ==
    /\ \A t \in Threads : \A i \in DOMAIN callLog[t] :
          sessions[callLog[t][i].session].thread = t
    /\ \A s \in DOMAIN sessions :
          /\ sessions[s].closed >= 1 => pc[sessions[s].thread] = "done"
          /\ pc[sessions[s].thread] = "done" => sessions[s].closed = 1

\* The registrations on thread t's client whose provider listed `name`, and
\* the latest of them.
Listings(t, name) == {i \in RegsOf(t) : Lists(sessions[i].provider, name)}

LastListing(t, name) ==
    CHOOSE i \in Listings(t, name) : \A j \in Listings(t, name) : j <= i

\* C17: after any sequence of registrations the reverse index maps exactly
\* the names some registration listed, each to one server: the server of the
\* latest registration that listed the name. A request for the name is
\* executed on the session held under that server id, which, when no server
\* id was registered twice, is the session of that latest registration.
C17_LaterRegistrationWins ==
    \A t \in Threads :
       self[t] \in DOMAIN clients =>
          LET map == clients[self[t]]._tool_to_server_map IN
          /\ DOMAIN map = {n \in ToolNames : Listings(t, n) # {}}
          /\ \A n \in DOMAIN map : map[n] = sessions[LastListing(t, n)].server_id
          /\ \A i \in DOMAIN callLog[t] :
                LET n   == callLog[t][i].name
                    sid == sessions[LastListing(t, n)].server_id
                IN /\ callLog[t][i].session = LatestReg(t, sid)
                   /\ (\A a, b \in RegsOf(t) :
                          sessions[a].server_id = sessions[b].server_id => a = b)
                      => callLog[t][i].session = LastListing(t, n)

\* C17 witness: "hub" and then "weather" were registered under different
\* server ids, both list get-weather, and a request for get-weather was
\* executed on the session of "weather".
C17_Witness ==
    /\ Len(sessions) = 2
    /\ sessions[1].provider = "hub"
    /\ sessions[2].provider = "weather"
    /\ sessions[1].server_id # sessions[2].server_id
    /\ Len(callLog["t1"]) = 1
    /\ callLog["t1"][1].name = "get-weather"
    /\ callLog["t1"][1].session = 2
    /\ callLog["t1"][1].outcome = "returned"

\* C18: after any sequence of registrations the reverse index and the
\* servers' tool lists agree: every indexed name is in the current tool list
\* of the server it maps to, and every name of the catalog is there once.
C18_IndexAgreesWithToolLists ==
    \A t \in Threads :
       self[t] \in DOMAIN clients =>
          LET c       == clients[self[t]]
              catalog == CollectTools(c._servers)
          IN /\ \A n \in DOMAIN c._tool_to_server_map :
                   \E i \in DOMAIN DictGet(c._servers, c._tool_to_server_map[n]).tools :
                      DictGet(c._servers, c._tool_to_server_map[n]).tools[i].name = n
             /\ \A i, j \in DOMAIN catalog :
                   catalog[i].function.name = catalog[j].function.name => i = j

\* C19: the process-wide message_history is empty or begins with the system
\* prompt message, and every transcript sent to the model begins with it.
C19_HistoryBeginsWithSystemPrompt ==
    /\ message_history = <<>> \/ message_history[1] = SystemMessage
    /\ \A t \in Threads : \A i \in DOMAIN modelLog[t] :
          /\ modelLog[t][i].messages # <<>>
          /\ modelLog[t][i].messages[1] = SystemMessage

\* Thread t's invocation got its response from chatWithTools and has
\* appended it; its cleanup is still to run.
Succeeded(t) ==
    /\ pc[t] = "finally"
    /\ turnLog[t] # <<>>
    /\ Last(turnLog[t]).tool_calls = <<>>
    /\ ret[t] = Returned(Last(turnLog[t]).content)

\* C20: a successful invocation that runs alone leaves message_history as
\* it found it, followed by the system message if it found it empty, the user
\* message and one assistant message with the final text; no assistant
\* tool-call message and no tool message is ever in message_history.
C20_HistoryExtendedByUserAndAnswer ==
    /\ \A t \in Threads :
          Succeeded(t) =>
             message_history =
                startLog[t]
                \o (IF startLog[t] = <<>> THEN <<SystemMessage>> ELSE <<>>)
                \o <<UserMessage(UserText(t)),
                     AssistantMessage(Last(turnLog[t]).content)>>
    /\ \A i \in DOMAIN message_history :
          /\ ~IsToolMessage(message_history[i])
          /\ ~IsToolCallMessage(message_history[i])

\* C20 witness: the second invocation of a process succeeded after a tool
\* call, on a history the first invocation had left.
C20_Witness ==
    /\ Succeeded("t1")
    /\ inv["t1"] = 2
    /\ startLog["t1"] # <<>>
    /\ Len(callLog["t1"]) >= 1
    /\ Len(SelectSeq(messages["t1"], IsToolMessage)) >= 1

\* C21: when an invocation running alone completes, the caller gets a value
\* (no exception), the value is latest_model_response and the content of the
\* last message of message_history, which is an assistant message; and the
\* value an exception is turned into is the error text of that exception.
C21_ReturnedValueIsLatestResponse ==
    /\ [][\A t \in Threads :
             (pc[t] = "finally" /\ pc'[t] = "done") =>
                /\ ret'[t].kind = "return"
                /\ ret'[t].value = latest_model_response'
                /\ message_history' # <<>>
                /\ Last(message_history') = AssistantMessage(ret'[t].value)]_vars
    /\ [][\A t \in Threads :
             (pc[t] = "raised" /\ pc'[t] = "finally") =>
                ret'[t] = Returned(ErrorText(ret[t].value))]_vars

\* C22: test2.py's chatWithTools ends after at most two model calls: the
\* first gets the catalog; a second is made only after a first turn with
\* tool calls, gets no catalog, and its content is appended as the final
\* assistant message; tool calls are dispatched for the first turn only; and
\* every run ends, by returning or by raising.
C22_AtMostTwoModelCalls ==
    /\ [](\A t \in Threads :
             /\ Len(modelLog[t]) <= 2
             /\ Len(turnLog[t]) <= Len(modelLog[t])
             /\ modelLog[t] # <<>> =>
                   /\ "tools" \in DOMAIN modelLog[t][1]
                   /\ modelLog[t][1].tools = CollectTools(clients[self[t]]._servers)
             /\ Len(modelLog[t]) = 2 =>
                   /\ "tools" \notin DOMAIN modelLog[t][2]
                   /\ turnLog[t][1].tool_calls # <<>>
                   /\ pending[t] = <<>>
             /\ \A i \in DOMAIN turnLog[t] : turnLog[t][i].tool_calls # <<>> => i = 1
             /\ \A i \in DOMAIN callLog[t] :
                   \E k \in DOMAIN turnLog[t][1].tool_calls :
                      turnLog[t][1].tool_calls[k].id = callLog[t][i].id
             /\ pc[t] = "returned" =>
                   /\ Len(modelLog[t]) = (IF turnLog[t][1].tool_calls = <<>> THEN 1 ELSE 2)
                   /\ Len(turnLog[t]) = Len(modelLog[t])
                   /\ Last(messages[t]) = AssistantMessage(Last(turnLog[t]).content))
    /\ <>(pc["t1"] \in {"returned", "raised"})

\* C22 witness: a run returned after a first turn with two tool calls, both
\* executed, and the follow-up call.
C22_Witness ==
    /\ pc["t1"] = "returned"
    /\ Len(modelLog["t1"]) = 2
    /\ Len(turnLog["t1"][1].tool_calls) = 2
    /\ Len(callLog["t1"]) = 2
    /\ Last(messages["t1"]) = AssistantMessage("Take an umbrella.")

====
